---- MODULE Spec2Model ----
(***************************************************************************)
(* Model of src/PN.py ("ext-server"): the workspace tools                  *)
(* list_workspace_files, read_file, write_file and run_npm_script over a   *)
(* POSIX file system.                                                      *)
(*                                                                         *)
(* A file name is the sequence of its dot-separated pieces:                *)
(* "b.txt" is <<"b","txt">>, ".git" is <<"","git">>, ".." is <<"","","">>. *)
(* An absolute path is the sequence of its names, "/" being <<>>.          *)
(* File data is a short explicit body of bytes followed by `pad` filler    *)
(* bytes "x", so that sizes around MAX_READ_BYTES are representable.       *)
(***************************************************************************)
EXTENDS Integers, Sequences, FiniteSets, TLC

VARIABLES fs, calls, last, prevRun, spawns, rd, wr

vars == <<fs, calls, last, prevRun, spawns, rd, wr>>

\* ------------------------------------------------------------------ bounds
\* tool calls in a row on the workspace files
MaxCalls == 2

\* tool calls in a row on the manifest and its scripts
MaxRunCalls == 3

\* concurrent write_file calls
MaxWriters == 2

\* --------------------------------------------------------------- constants
WORKSPACE_ROOT == << <<"ws">> >>

IGNORED_DIRS == { <<"", "git">>, <<"node_modules">>, <<"", "venv">>, <<"", "mcp">> }

IGNORED_FILE_SUFFIXES ==
  {".pyc", ".pyo", ".png", ".jpg", ".jpeg", ".gif", ".ico", ".zip", ".tgz", ".gz", ".lock"}

MAX_READ_BYTES == 200000

\* st_size the file system reports for a directory
DirSize == 4096

\* ------------------------------------------------------------- path algebra
DotDot == <<"", "", "">>

Front(s) == SubSeq(s, 1, Len(s) - 1)

Last(s) == s[Len(s)]

\* pathlib PurePath.parents: every proper prefix of the path
Parents(p) == { SubSeq(p, 1, n) : n \in 0 .. (Len(p) - 1) }

\* pathlib PurePath.suffix of the final component
Suffix(p) ==
  IF p = <<>> THEN ""
  ELSE LET name == Last(p) IN
       IF /\ Len(name) >= 2
          /\ Last(name) # ""
          /\ ~(Len(name) = 2 /\ name[1] = "")
       THEN "." \o Last(name)
       ELSE ""

\* ------------------------------------------------------------- file system
DirNode == [kind |-> "dir", data |-> [body |-> <<>>, pad |-> 0], target |-> <<>>]

SpecialNode == [kind |-> "special", data |-> [body |-> <<>>, pad |-> 0], target |-> <<>>]

FileNode(d) == [kind |-> "file", data |-> d, target |-> <<>>]

LinkNode(t) == [kind |-> "symlink", data |-> [body |-> <<>>, pad |-> 0], target |-> t]

Exists(fsys, p) == p \in DOMAIN fsys

KindOf(fsys, p) == IF Exists(fsys, p) THEN fsys[p].kind ELSE "none"

\* os.path.realpath, non-strict: walk the components left to right, pop on
\* "..", substitute the (absolute) target of a symbolic link and go on.
RECURSIVE realpath(_, _, _)
realpath(fsys, done, rest) ==
  IF rest = <<>> THEN done
  ELSE LET name == Head(rest)
           more == Tail(rest)
       IN IF name = DotDot
          THEN realpath(fsys, IF done = <<>> THEN <<>> ELSE Front(done), more)
          ELSE LET next == Append(done, name) IN
               IF KindOf(fsys, next) = "symlink"
               THEN realpath(fsys, <<>>, fsys[next].target \o more)
               ELSE realpath(fsys, next, more)

\* WORKSPACE_ROOT / rel_path : an absolute right operand replaces the left
JoinRoot(rel) == IF rel.abs THEN rel.segs ELSE WORKSPACE_ROOT \o rel.segs

\* (WORKSPACE_ROOT / rel_path).resolve()
Canonical(fsys, rel) == realpath(fsys, <<>>, JoinRoot(rel))

\* (mutant) the containment test on the joined path, without resolve()
safe_path_unresolved(fsys, rel) ==
  LET p == JoinRoot(rel) IN
  IF WORKSPACE_ROOT \notin Parents(p) /\ p # WORKSPACE_ROOT
  THEN [ok |-> FALSE, path |-> p]
  ELSE [ok |-> TRUE, path |-> p]

\* _safe_path: the resolved path, or the failure
_safe_path(fsys, rel) ==
  LET p == Canonical(fsys, rel) IN
  IF WORKSPACE_ROOT \notin Parents(p) /\ p # WORKSPACE_ROOT
  THEN [ok |-> FALSE, path |-> p]
  ELSE [ok |-> TRUE, path |-> p]

\* ------------------------------------------------------------ file content
\* Bytes: "x" and the JSON documents are ASCII, "LF" and "CR" the line ends,
\* "E3" "81" "82" the UTF-8 encoding of one non-ASCII character ("HIRA_A"),
\* "FF" a byte no UTF-8 text contains.  A JSON document is one unit that
\* stands for the ASCII text of that document.
JsonDocs == {"J_ARRAY", "J_EMPTY", "J_NULL", "J_LIST", "J_LINT_BUILD", "J_LINT_BUILD_TEST"}

\* len() of the ASCII text a unit stands for
UnitLen(u) ==
  CASE u = "J_ARRAY" -> 2                \* []
    [] u = "J_EMPTY" -> 2                \* {}
    [] u = "J_NULL" -> 16                \* {"scripts":null}
    [] u = "J_LIST" -> 21                \* {"scripts":["build"]}
    [] u = "J_LINT_BUILD" -> 36          \* {"scripts":{"lint":"l","build":"b"}}
    [] u = "J_LINT_BUILD_TEST" -> 47     \* {"scripts":{"lint":"l","build":"b","test":"t"}}
    [] OTHER -> 1

RECURSIVE SumLen(_)
SumLen(s) == IF s = <<>> THEN 0 ELSE UnitLen(Head(s)) + SumLen(Tail(s))

\* canonical form of body ++ "x"^pad : the body does not end with "x"
RECURSIVE Norm(_, _)
Norm(body, pad) ==
  IF body # <<>> /\ Last(body) = "x"
  THEN Norm(Front(body), pad + 1)
  ELSE [body |-> body, pad |-> pad]

\* st_size of a regular file
ByteSize(d) == SumLen(d.body) + d.pad

\* (mutant) encoding with a one-byte code page: "HIRA_A" is not UTF-8 on disk
RECURSIVE encode_onebyte(_)
encode_onebyte(chars) ==
  IF chars = <<>> THEN <<>>
  ELSE <<IF Head(chars) = "HIRA_A" THEN "FF" ELSE Head(chars)>> \o encode_onebyte(Tail(chars))

\* str.encode("utf-8")
RECURSIVE utf8_encode(_)
utf8_encode(chars) ==
  IF chars = <<>> THEN <<>>
  ELSE (IF Head(chars) = "HIRA_A" THEN <<"E3", "81", "82">> ELSE <<Head(chars)>>)
       \o utf8_encode(Tail(chars))

\* bytes.decode("utf-8"), strict: [ok, chars]
RECURSIVE utf8_decode(_)
utf8_decode(b) ==
  IF b = <<>> THEN [ok |-> TRUE, chars |-> <<>>]
  ELSE IF Head(b) = "E3"
  THEN IF Len(b) >= 3 /\ b[2] = "81" /\ b[3] = "82"
       THEN LET r == utf8_decode(SubSeq(b, 4, Len(b))) IN
            [ok |-> r.ok, chars |-> <<"HIRA_A">> \o r.chars]
       ELSE [ok |-> FALSE, chars |-> <<>>]
  ELSE IF Head(b) \in {"81", "82", "FF"}
  THEN [ok |-> FALSE, chars |-> <<>>]
  ELSE LET r == utf8_decode(Tail(b)) IN
       [ok |-> r.ok, chars |-> <<Head(b)>> \o r.chars]

\* text-mode reading with newline=None: "\r\n" and "\r" become "\n"
RECURSIVE universal_newlines(_)
universal_newlines(chars) ==
  IF chars = <<>> THEN <<>>
  ELSE IF Head(chars) = "CR"
  THEN IF Len(chars) >= 2 /\ chars[2] = "LF"
       THEN <<"LF">> \o universal_newlines(SubSeq(chars, 3, Len(chars)))
       ELSE <<"LF">> \o universal_newlines(Tail(chars))
  ELSE <<Head(chars)>> \o universal_newlines(Tail(chars))

\* Path.write_text(content, encoding="utf-8") on POSIX: "\n" is written as
\* os.linesep, which is "\n"; every character is encoded as UTF-8.
write_text_bytes(content) ==
  LET n == Norm(utf8_encode(content.chars), content.pad) IN
  [body |-> n.body, pad |-> n.pad]

\* Path.read_text(encoding="utf-8") of the bytes d: [ok, text]
read_text_str(d) ==
  LET r == utf8_decode(d.body) IN
  IF r.ok
  THEN LET n == Norm(universal_newlines(r.chars), d.pad) IN
       [ok |-> TRUE, text |-> [chars |-> n.body, pad |-> n.pad]]
  ELSE [ok |-> FALSE, text |-> [chars |-> <<>>, pad |-> 0]]

\* ------------------------------------------------------------ tool results
EmptyStr == [chars |-> <<>>, pad |-> 0]

NoChild == [returncode |-> 0, stdout |-> <<>>, stderr |-> <<>>]

\* The outcome of one tool call: kind is "ok" or the failure; the other
\* fields are the returned value and what the call did on the way.
NoRes ==
  [kind |-> "none", path |-> <<>>, text |-> EmptyStr, size |-> 0, limit |-> 0,
   loaded |-> FALSE, files |-> {}, names |-> <<>>, out |-> <<>>,
   spawned |-> 0, child |-> NoChild]

Fail(kind, p) == [NoRes EXCEPT !.kind = kind, !.path = p]

\* ---------------------------------------------------------------- read_file
\* path.stat().st_size : [err, size]
stat(fsys, p) ==
  IF Exists(fsys, p)
  THEN [err |-> "none",
        size |-> CASE fsys[p].kind = "file" -> ByteSize(fsys[p].data)
                   [] fsys[p].kind = "dir" -> DirSize
                   [] OTHER -> 0]
  ELSE IF \E q \in Parents(p) : KindOf(fsys, q) \in {"file", "special"}
  THEN [err |-> "NotADirectoryError", size |-> 0]
  ELSE [err |-> "FileNotFoundError", size |-> 0]

\* read_file lines 83-87: resolve, then refuse the excluded suffixes
read_check(fsys, rel) ==
  LET sp == _safe_path(fsys, rel) IN
  IF ~sp.ok THEN Fail("PathEscape", sp.path)
  ELSE IF Suffix(sp.path) \in IGNORED_FILE_SUFFIXES THEN Fail("Inadmissible", sp.path)
  ELSE Fail("go", sp.path)

\* (mutant) the limit itself is refused
TooLargeAtLimit(size) == size >= MAX_READ_BYTES

\* (mutant) the comparison the wrong way round
TooLargeInverted(size) == size < MAX_READ_BYTES

\* The size test of read_file: TRUE when the file is refused as too large
TooLarge(size) == size > MAX_READ_BYTES

\* read_file lines 89-98: the size limit
read_stat(fsys, p) ==
  LET st == stat(fsys, p) IN
  IF st.err = "FileNotFoundError" THEN Fail("NotFound", p)
  ELSE IF st.err # "none" THEN Fail(st.err, p)
  ELSE IF TooLarge(st.size)
  THEN [Fail("TooLarge", p) EXCEPT !.size = st.size, !.limit = MAX_READ_BYTES]
  ELSE [Fail("go", p) EXCEPT !.size = st.size]

\* read_file lines 100-107: load and decode
read_load(fsys, p, size) ==
  LET k == KindOf(fsys, p) IN
  IF k = "none" THEN [Fail("NotFound", p) EXCEPT !.size = size]
  ELSE IF k = "dir" THEN [Fail("IsADirectoryError", p) EXCEPT !.size = size]
  ELSE IF k # "file" THEN [Fail("OSError", p) EXCEPT !.size = size]
  ELSE LET r == read_text_str(fsys[p].data) IN
       IF r.ok
       THEN [Fail("ok", p) EXCEPT !.size = size, !.loaded = TRUE, !.text = r.text]
       ELSE [Fail("EncodingError", p) EXCEPT !.size = size, !.loaded = TRUE]

\* read_file as one call
read_file_result(fsys, rel) ==
  LET c == read_check(fsys, rel) IN
  IF c.kind # "go" THEN c
  ELSE LET s == read_stat(fsys, c.path) IN
       IF s.kind # "go" THEN s
       ELSE read_load(fsys, c.path, s.size)

\* --------------------------------------------------------------- write_file
\* write_file lines 119-123: resolve, then refuse the excluded suffixes
write_check(fsys, rel) ==
  LET sp == _safe_path(fsys, rel) IN
  IF ~sp.ok THEN Fail("PathEscape", sp.path)
  ELSE IF Suffix(sp.path) \in IGNORED_FILE_SUFFIXES THEN Fail("Inadmissible", sp.path)
  ELSE Fail("go", sp.path)

\* (mutant) mkdir without parents=True: only the last directory is made
mkdir_one(fsys, p) ==
  IF Front(p) \in DOMAIN fsys
  THEN [err |-> IF fsys[Front(p)].kind = "dir" THEN "none" ELSE "FileExistsError", fs |-> fsys]
  ELSE IF KindOf(fsys, Front(Front(p))) # "dir"
  THEN [err |-> "FileNotFoundError", fs |-> fsys]
  ELSE [err |-> "none",
        fs |-> [q \in (DOMAIN fsys) \cup {Front(p)} |->
                  IF q \in DOMAIN fsys THEN fsys[q] ELSE DirNode]]

\* path.parent.mkdir(parents=True, exist_ok=True): [err, fs]
mkdir_parents(fsys, p) ==
  LET anc == Parents(p) IN
  IF \E q \in anc : KindOf(fsys, q) \notin {"dir", "none"}
  THEN [err |-> IF KindOf(fsys, Front(p)) \notin {"dir", "none"}
                THEN "FileExistsError" ELSE "NotADirectoryError",
        fs |-> fsys]
  ELSE [err |-> "none",
        fs |-> [q \in (DOMAIN fsys) \cup anc |->
                  IF q \in DOMAIN fsys THEN fsys[q] ELSE DirNode]]

\* open(path, "w"): create the file or truncate it to nothing: [err, fs]
open_w(fsys, p) ==
  LET k == KindOf(fsys, p) IN
  IF k = "dir" THEN [err |-> "IsADirectoryError", fs |-> fsys]
  ELSE IF k = "special" THEN [err |-> "OSError", fs |-> fsys]
  ELSE IF KindOf(fsys, Front(p)) # "dir" THEN [err |-> "FileNotFoundError", fs |-> fsys]
  ELSE [err |-> "none",
        fs |-> [q \in (DOMAIN fsys) \cup {p} |->
                  IF q = p THEN FileNode([body |-> <<>>, pad |-> 0]) ELSE fsys[q]]]

\* n filler bytes, written out
RECURSIVE Xs(_)
Xs(n) == IF n = 0 THEN <<>> ELSE <<"x">> \o Xs(n - 1)

\* The bytes of a file holding `was` after d is written at offset 0: d, then
\* what `was` held beyond the length of d.  (After open_w the file is empty
\* and the result is d, unless another writer wrote in between.)
overlay(was, d) ==
  LET k == ByteSize(d) IN
  IF k >= ByteSize(was) THEN d
  ELSE IF k >= SumLen(was.body) THEN Norm(d.body, d.pad + (ByteSize(was) - k))
  ELSE Norm(d.body \o Xs(d.pad) \o SubSeq(was.body, k + 1, Len(was.body)), was.pad)

\* f.write(data); f.close(): the bytes go to the open file
put_bytes(fsys, p, d) ==
  [q \in DOMAIN fsys |-> IF q = p THEN FileNode(overlay(fsys[q].data, d)) ELSE fsys[q]]

\* write_file as one call: [res, fs]
write_file_result(fsys, rel, content) ==
  LET c == write_check(fsys, rel) IN
  IF c.kind # "go" THEN [res |-> c, fs |-> fsys]
  ELSE LET m == mkdir_parents(fsys, c.path) IN
       IF m.err # "none" THEN [res |-> Fail(m.err, c.path), fs |-> m.fs]
       ELSE LET o == open_w(m.fs, c.path) IN
            IF o.err # "none" THEN [res |-> Fail(o.err, c.path), fs |-> o.fs]
            ELSE [res |-> Fail("ok", c.path),
                  fs |-> put_bytes(o.fs, c.path, write_text_bytes(content))]

\* ----------------------------------------------------- list_workspace_files
\* WORKSPACE_ROOT.rglob("*"): every entry below the root; a symbolic link is
\* an entry and is not descended into
rglob(fsys) == { p \in DOMAIN fsys : WORKSPACE_ROOT \in Parents(p) }

\* (mutant) Path.exists() in place of is_file()
is_present(fsys, p) == KindOf(fsys, realpath(fsys, <<>>, p)) # "none"

\* Path.is_file(): follows symbolic links
is_file(fsys, p) == KindOf(fsys, realpath(fsys, <<>>, p)) = "file"

\* path.relative_to(WORKSPACE_ROOT)
relative_to(p) == SubSeq(p, Len(WORKSPACE_ROOT) + 1, Len(p))

\* (mutant) the loop body without the IGNORED_DIRS test
ListedAnyDir(fsys, p) ==
  /\ is_file(fsys, p)
  /\ Suffix(p) \notin IGNORED_FILE_SUFFIXES

\* the filter of the loop body, lines 59-68
Listed(fsys, p) ==
  /\ is_file(fsys, p)
  /\ ~(\E i \in 1 .. Len(p) : p[i] \in IGNORED_DIRS)
  /\ Suffix(p) \notin IGNORED_FILE_SUFFIXES

list_workspace_files_result(fsys) ==
  [Fail("ok", <<>>) EXCEPT !.files = { relative_to(p) : p \in { q \in rglob(fsys) : Listed(fsys, q) } }]

\* ----------------------------------------------------------- run_npm_script
\* WORKSPACE_ROOT / "package.json"
pkg_path == Append(WORKSPACE_ROOT, <<"package", "json">>)

NoNode == [kind |-> "none", data |-> [body |-> <<>>, pad |-> 0], target |-> <<>>]

\* (mutant) the manifest as the run_npm_script call before this one found it
pkg_node_cached(fsys) ==
  IF prevRun.kind # "none" THEN prevRun.node
  ELSE IF Exists(fsys, pkg_path) THEN fsys[pkg_path] ELSE NoNode

\* What the call finds at pkg_path (exists() and read_text follow links)
pkg_node(fsys) ==
  LET p == realpath(fsys, <<>>, pkg_path) IN
  IF Exists(fsys, p) THEN fsys[p] ELSE NoNode

\* The value a JSON document unit parses to: whether it is an object, and
\* its "scripts" member with the keys (or items) in document order
ParseDoc(u) ==
  CASE u = "J_ARRAY" -> [isdict |-> FALSE, scripts |-> [type |-> "absent", keys |-> <<>>]]
    [] u = "J_EMPTY" -> [isdict |-> TRUE, scripts |-> [type |-> "absent", keys |-> <<>>]]
    [] u = "J_NULL" -> [isdict |-> TRUE, scripts |-> [type |-> "null", keys |-> <<>>]]
    [] u = "J_LIST" -> [isdict |-> TRUE, scripts |-> [type |-> "list", keys |-> <<"build">>]]
    [] u = "J_LINT_BUILD" ->
         [isdict |-> TRUE, scripts |-> [type |-> "dict", keys |-> <<"lint", "build">>]]
    [] u = "J_LINT_BUILD_TEST" ->
         [isdict |-> TRUE, scripts |-> [type |-> "dict", keys |-> <<"lint", "build", "test">>]]

RECURSIVE lstrip(_)
lstrip(chars) ==
  IF chars # <<>> /\ Head(chars) \in {"LF", "CR"} THEN lstrip(Tail(chars)) ELSE chars

RECURSIVE rstrip(_)
rstrip(chars) ==
  IF chars # <<>> /\ Last(chars) \in {"LF", "CR"} THEN rstrip(Front(chars)) ELSE chars

\* json.loads(text): one document between optional whitespace: [ok, value]
json_loads(text) ==
  LET t == rstrip(lstrip(text.chars)) IN
  IF text.pad = 0 /\ Len(t) = 1 /\ t[1] \in JsonDocs
  THEN [ok |-> TRUE, value |-> ParseDoc(t[1])]
  ELSE [ok |-> FALSE, value |-> ParseDoc("J_ARRAY")]

\* pkg_data.get("scripts") or {}
scripts_or_empty(pkg_data) ==
  IF pkg_data.scripts.type \in {"absent", "null"} \/ pkg_data.scripts.keys = <<>>
  THEN [type |-> "dict", keys |-> <<>>]
  ELSE pkg_data.scripts

\* the code points of the script names in use
CodePoints(name) ==
  CASE name = "build" -> <<98, 117, 105, 108, 100>>
    [] name = "lint" -> <<108, 105, 110, 116>>
    [] name = "test" -> <<116, 101, 115, 116>>

\* str.__lt__: lexicographic on code points
RECURSIVE SeqLess(_, _)
SeqLess(a, b) ==
  IF b = <<>> THEN FALSE
  ELSE IF a = <<>> THEN TRUE
  ELSE IF Head(a) # Head(b) THEN Head(a) < Head(b)
  ELSE SeqLess(Tail(a), Tail(b))

StrLess(a, b) == SeqLess(CodePoints(a), CodePoints(b))

RECURSIVE Insert(_, _)
Insert(x, s) ==
  IF s = <<>> THEN <<x>>
  ELSE IF StrLess(x, Head(s)) THEN <<x>> \o s
  ELSE <<Head(s)>> \o Insert(x, Tail(s))

\* (mutant) the keys as the document has them
unsorted(keys) == keys

\* sorted(keys)
RECURSIVE sorted(_)
sorted(keys) == IF keys = <<>> THEN <<>> ELSE Insert(Head(keys), sorted(Tail(keys)))

\* str(int)
RECURSIVE Digits(_)
Digits(n) ==
  LET d == <<"0", "1", "2", "3", "4", "5", "6", "7", "8", "9">>[(n % 10) + 1] IN
  IF n < 10 THEN <<d>> ELSE Append(Digits(n \div 10), d)

Decimal(n) == IF n < 0 THEN <<"-">> \o Digits(0 - n) ELSE Digits(n)

\* decoding the child's output with errors="replace" in text mode: a byte
\* that cannot be decoded becomes U+FFFD, line ends become "\n"
RECURSIVE replace_errors(_)
replace_errors(b) ==
  IF b = <<>> THEN <<>>
  ELSE <<IF Head(b) = "FF" THEN "U+FFFD" ELSE Head(b)>> \o replace_errors(Tail(b))

console_decode(b) == universal_newlines(replace_errors(b))

\* the returned text, lines 174-178
compose(returncode, stdout, stderr) ==
  <<"exit_code: ">> \o Decimal(returncode) \o <<"LF", "stdout:", "LF">> \o stdout
    \o <<"LF", "stderr:", "LF">> \o stderr

\* (mutant) subprocess.run(..., check=True): a non-zero exit code raises
run_child_checked(child) ==
  IF child.returncode # 0
  THEN [Fail("CalledProcessError", pkg_path) EXCEPT !.spawned = 1, !.child = child]
  ELSE [Fail("ok", pkg_path) EXCEPT
          !.spawned = 1, !.child = child,
          !.out = compose(child.returncode, console_decode(child.stdout),
                          console_decode(child.stderr))]

\* subprocess.run(...) and the return, lines 165-178: no check of returncode
run_child(child) ==
  [Fail("ok", pkg_path) EXCEPT
     !.spawned = 1, !.child = child,
     !.out = compose(child.returncode, console_decode(child.stdout),
                     console_decode(child.stderr))]

\* run_npm_script as one call; child is what the npm process does if spawned
run_npm_script_result(fsys, script, child) ==
  LET node == pkg_node(fsys) IN
  IF node.kind = "none" THEN Fail("ManifestNotFound", pkg_path)
  ELSE IF node.kind = "dir" THEN Fail("IsADirectoryError", pkg_path)
  ELSE IF node.kind # "file" THEN Fail("OSError", pkg_path)
  ELSE LET t == read_text_str(node.data) IN
       IF ~t.ok THEN Fail("UnicodeDecodeError", pkg_path)
       ELSE LET j == json_loads(t.text) IN
            IF ~j.ok THEN Fail("ManifestInvalid", pkg_path)
            ELSE IF ~j.value.isdict THEN Fail("AttributeError", pkg_path)
            ELSE LET scripts == scripts_or_empty(j.value) IN
                 IF ~(\E i \in 1 .. Len(scripts.keys) : scripts.keys[i] = script)
                 THEN IF scripts.type = "dict"
                      THEN [Fail("UnknownScript", pkg_path) EXCEPT !.names = sorted(scripts.keys)]
                      ELSE Fail("AttributeError", pkg_path)
                 ELSE run_child(child)

\* ------------------------------------------------------- the file system
\* The workspace of the listing example (a/b.txt, .git/config) with an
\* excluded-suffix file, symbolic links that stay inside and that leave the
\* root, a socket, and a directory outside the root.  No link points at a
\* link, so realpath terminates.
Layout(probe) ==
  LET ws == WORKSPACE_ROOT
      etc == << <<"etc">> >>
  IN  (<<>> :> DirNode)
   @@ (ws :> DirNode)
   @@ (Append(ws, <<"a">>) :> DirNode)
   @@ (ws \o << <<"a">>, <<"b", "txt">> >> :> FileNode(probe))
   @@ (Append(ws, <<"", "git">>) :> DirNode)
   @@ (ws \o << <<"", "git">>, <<"config">> >> :> FileNode([body |-> <<>>, pad |-> 3]))
   @@ (Append(ws, <<"pic", "png">>) :> FileNode([body |-> <<"FF">>, pad |-> 0]))
   @@ (Append(ws, <<"lnk">>) :> LinkNode(ws \o << <<"a">>, <<"b", "txt">> >>))
   @@ (Append(ws, <<"out">>) :> LinkNode(etc))
   @@ (Append(ws, <<"outf">>) :> LinkNode(Append(etc, <<"passwd">>)))
   @@ (Append(ws, <<"gitlnk">>) :> LinkNode(Append(ws, <<"", "git">>)))
   @@ (Append(ws, <<"dang">>) :> LinkNode(Append(ws, <<"gone">>)))
   @@ (Append(ws, <<"sock">>) :> SpecialNode)
   @@ (etc :> DirNode)
   @@ (Append(etc, <<"passwd">>) :> FileNode([body |-> <<>>, pad |-> 7]))

\* What a/b.txt holds at the start: 10 bytes of text, a byte that is not
\* UTF-8, Windows line ends, and sizes at and just over the limit.
ProbeData ==
  { [body |-> <<>>, pad |-> 10],
    [body |-> <<"FF">>, pad |-> 0],
    [body |-> <<"x", "CR", "LF">>, pad |-> 0],
    [body |-> <<>>, pad |-> MAX_READ_BYTES],
    [body |-> <<>>, pad |-> MAX_READ_BYTES + 1] }

\* ------------------------------------------------------------------ inputs
Rel(segs) == [abs |-> FALSE, segs |-> segs]

Abs(segs) == [abs |-> TRUE, segs |-> segs]

\* rel_path arguments
RelPaths ==
  { Rel(<< <<"a">>, <<"b", "txt">> >>),
    Rel(<< DotDot, <<"etc">>, <<"passwd">> >>),
    Abs(<< <<"etc">>, <<"passwd">> >>),
    Abs(<< <<"ws">>, <<"a">>, <<"b", "txt">> >>),
    Rel(<< <<"out">>, <<"passwd">> >>),
    Rel(<< <<"outf">> >>),
    Rel(<< <<"lnk">> >>),
    Rel(<< <<"", "git">>, <<"config">> >>),
    Rel(<< <<"", "git">>, <<"logo", "png">> >>),
    Rel(<< <<"gitlnk">>, <<"hooks">>, <<"h">> >>),
    Rel(<< <<"node_modules">>, <<"m", "js">> >>),
    Rel(<< <<"pic", "png">> >>),
    Rel(<< <<"a">>, DotDot, <<"", "png">> >>),
    Rel(<< <<"new">>, <<"sub">>, <<"f", "txt">> >>),
    Rel(<< <<"a">>, <<"b", "txt">>, <<"c">> >>),
    Rel(<< <<"sock">> >>),
    Rel(<< <<"a">> >>),
    Rel(<<>>) }

\* content arguments: strings of Unicode characters
Contents ==
  { EmptyStr,
    [chars |-> <<"HIRA_A", "LF">>, pad |-> 0],
    [chars |-> <<"x", "CR", "LF">>, pad |-> 0],
    [chars |-> <<>>, pad |-> MAX_READ_BYTES],
    [chars |-> <<"HIRA_A">>, pad |-> MAX_READ_BYTES - 2] }

\* ------------------------------------------------------------------ actions
NoRun == [script |-> "", kind |-> "none", node |-> NoNode]

Idle ==
  [op |-> "none", rel |-> Rel(<<>>), content |-> EmptyStr, script |-> "",
   res |-> NoRes, prev |-> NoRun]

Init ==
  /\ \E probe \in ProbeData : fs = Layout(probe)
  /\ calls = 0
  /\ last = Idle
  /\ prevRun = NoRun
  /\ spawns = 0
  /\ rd = [pc |-> "off"]
  /\ wr = [pc |-> "off"]

list_workspace_files ==
  /\ calls' = calls + 1
  /\ last' = [Idle EXCEPT !.op = "list_workspace_files", !.res = list_workspace_files_result(fs)]
  /\ UNCHANGED <<fs, prevRun, spawns, rd, wr>>

read_file(rel_path) ==
  /\ calls' = calls + 1
  /\ last' = [Idle EXCEPT !.op = "read_file", !.rel = rel_path,
                          !.res = read_file_result(fs, rel_path)]
  /\ UNCHANGED <<fs, prevRun, spawns, rd, wr>>

write_file(rel_path, content) ==
  LET w == write_file_result(fs, rel_path, content) IN
  /\ calls' = calls + 1
  /\ fs' = w.fs
  /\ last' = [Idle EXCEPT !.op = "write_file", !.rel = rel_path, !.content = content,
                          !.res = w.res]
  /\ UNCHANGED <<prevRun, spawns, rd, wr>>

\* prevRun and last.prev record the run_npm_script call before this one
run_npm_script(script, child) ==
  LET r == run_npm_script_result(fs, script, child) IN
  /\ calls' = calls + 1
  /\ last' = [Idle EXCEPT !.op = "run_npm_script", !.script = script, !.res = r,
                          !.prev = prevRun]
  /\ prevRun' = [script |-> script, kind |-> r.kind, node |-> pkg_node(fs)]
  /\ spawns' = spawns + r.spawned
  /\ UNCHANGED <<fs, rd, wr>>

Next ==
  \/ calls < MaxCalls /\ list_workspace_files
  \/ calls < MaxCalls /\ \E rel_path \in RelPaths : read_file(rel_path)
  \/ calls < MaxCalls /\ \E rel_path \in RelPaths, content \in Contents :
                            write_file(rel_path, content)

Spec == Init /\ [][Next]_vars

\* --------------------------------------------------- the script runner
\* What package.json holds at the start (or that it is missing)
ManifestData ==
  { [body |-> <<u>>, pad |-> 0] : u \in JsonDocs }
    \cup { [body |-> <<"FF">>, pad |-> 0], [body |-> <<>>, pad |-> 1] }

\* Texts written to package.json between runs
ManifestTexts ==
  { [chars |-> <<u>>, pad |-> 0] : u \in JsonDocs \ {"J_NULL"} }
    \cup { [chars |-> <<"LF", "J_LINT_BUILD", "CR", "LF">>, pad |-> 0], EmptyStr }

Scripts == {"build", "lint", "test"}

\* What the npm child process does: exit code (negative: killed by a signal)
\* and the bytes on its two pipes
ChildRuns ==
  { [returncode |-> rc, stdout |-> o[1], stderr |-> o[2]] :
      rc \in {0, 1, -9},
      o \in { << <<>>, <<>> >>, << <<"x", "CR", "LF">>, <<"FF">> >> } }

InitRun ==
  /\ \/ fs = Layout([body |-> <<>>, pad |-> 10])
     \/ \E d \in ManifestData :
          fs = Layout([body |-> <<>>, pad |-> 10]) @@ (pkg_path :> FileNode(d))
  /\ calls = 0
  /\ last = Idle
  /\ prevRun = NoRun
  /\ spawns = 0
  /\ rd = [pc |-> "off"]
  /\ wr = [pc |-> "off"]

NextRun ==
  \/ calls < MaxRunCalls /\ \E script \in Scripts, child \in ChildRuns :
                               run_npm_script(script, child)
  \/ calls < MaxRunCalls /\ \E content \in ManifestTexts :
                               write_file(Rel(<< <<"package", "json">> >>), content)

SpecRun == InitRun /\ [][NextRun]_vars

\* ------------------------------------------------------ concurrent calls
\* One read_file call and MaxWriters write_file calls on a/b.txt, each taking
\* the steps of its handler one system call at a time.
Writers == 1 .. MaxWriters

ConcRel == Rel(<< <<"a">>, <<"b", "txt">> >>)

ConcContents ==
  { [chars |-> <<"HIRA_A">>, pad |-> 0],
    [chars |-> <<>>, pad |-> MAX_READ_BYTES],
    [chars |-> <<"HIRA_A">>, pad |-> MAX_READ_BYTES - 2] }

ConcProbe == { [body |-> <<>>, pad |-> 10], [body |-> <<"E3", "81", "82">>, pad |-> 7] }

InitConc ==
  /\ \E probe \in ConcProbe :
       /\ fs = Layout(probe)
       /\ rd = [pc |-> "check", res |-> NoRes, old |-> probe]
  /\ \E cs \in [Writers -> ConcContents] :
       wr = [w \in Writers |-> [pc |-> "check", content |-> cs[w], res |-> NoRes]]
  /\ calls = 0
  /\ last = Idle
  /\ prevRun = NoRun
  /\ spawns = 0

\* read_file lines 83-87
rd_check ==
  /\ rd.pc = "check"
  /\ LET c == read_check(fs, ConcRel) IN
     rd' = [rd EXCEPT !.pc = IF c.kind = "go" THEN "stat" ELSE "done", !.res = c]
  /\ UNCHANGED <<fs, calls, last, prevRun, spawns, wr>>

\* read_file lines 89-98
rd_stat ==
  /\ rd.pc = "stat"
  /\ LET s == read_stat(fs, rd.res.path) IN
     rd' = [rd EXCEPT !.pc = IF s.kind = "go" THEN "load" ELSE "done", !.res = s]
  /\ UNCHANGED <<fs, calls, last, prevRun, spawns, wr>>

\* read_file lines 100-107
rd_load ==
  /\ rd.pc = "load"
  /\ rd' = [rd EXCEPT !.pc = "done", !.res = read_load(fs, rd.res.path, rd.res.size)]
  /\ UNCHANGED <<fs, calls, last, prevRun, spawns, wr>>

\* write_file lines 119-123
wr_check(w) ==
  /\ wr[w].pc = "check"
  /\ LET c == write_check(fs, ConcRel) IN
     wr' = [wr EXCEPT ![w].pc = IF c.kind = "go" THEN "mkdir" ELSE "done", ![w].res = c]
  /\ UNCHANGED <<fs, calls, last, prevRun, spawns, rd>>

\* write_file line 125
wr_mkdir(w) ==
  /\ wr[w].pc = "mkdir"
  /\ LET m == mkdir_parents(fs, wr[w].res.path) IN
     /\ fs' = m.fs
     /\ wr' = [wr EXCEPT ![w].pc = IF m.err = "none" THEN "open" ELSE "done",
                         ![w].res = IF m.err = "none" THEN @ ELSE Fail(m.err, @.path)]
  /\ UNCHANGED <<calls, last, prevRun, spawns, rd>>

\* write_file line 127, open(path, "w")
wr_open(w) ==
  /\ wr[w].pc = "open"
  /\ LET o == open_w(fs, wr[w].res.path) IN
     /\ fs' = o.fs
     /\ wr' = [wr EXCEPT ![w].pc = IF o.err = "none" THEN "write" ELSE "done",
                         ![w].res = IF o.err = "none" THEN @ ELSE Fail(o.err, @.path)]
  /\ UNCHANGED <<calls, last, prevRun, spawns, rd>>

\* write_file line 127, the write and the close
wr_write(w) ==
  /\ wr[w].pc = "write"
  /\ fs' = put_bytes(fs, wr[w].res.path, write_text_bytes(wr[w].content))
  /\ wr' = [wr EXCEPT ![w].pc = "done", ![w].res = Fail("ok", @.path)]
  /\ UNCHANGED <<calls, last, prevRun, spawns, rd>>

NextConc ==
  \/ rd_check
  \/ rd_stat
  \/ rd_load
  \/ \E w \in Writers : wr_check(w)
  \/ \E w \in Writers : wr_mkdir(w)
  \/ \E w \in Writers : wr_open(w)
  \/ \E w \in Writers : wr_write(w)

SpecConc == InitConc /\ [][NextConc]_vars

\* ================================================================== claims
\* Vocabulary of the claims, stated without the operators of the code.
UnderRoot(p) ==
  Len(p) > Len(WORKSPACE_ROOT) /\ SubSeq(p, 1, Len(WORKSPACE_ROOT)) = WORKSPACE_ROOT

InExcludedDir(p) == \E i \in 1 .. (Len(p) - 1) : p[i] \in IGNORED_DIRS

ExcludedSuffix(p) == Suffix(p) \in IGNORED_FILE_SUFFIXES

\* admissible in the sense of the specification: contained and classified
Admissible(p) == UnderRoot(p) /\ ~InExcludedDir(p) /\ ~ExcludedSuffix(p)

\* number of bytes of the UTF-8 encoding of a string
RECURSIVE Utf8Count(_)
Utf8Count(chars) ==
  IF chars = <<>> THEN 0
  ELSE (IF Head(chars) = "HIRA_A" THEN 3 ELSE UnitLen(Head(chars))) + Utf8Count(Tail(chars))

Utf8Len(text) == Utf8Count(text.chars) + text.pad

HasCR(text) == \E i \in 1 .. Len(text.chars) : text.chars[i] = "CR"

\* a step that is a call of the tool op
Call(op) == calls' = calls + 1 /\ last'.op = op

\* C1: read_file and write_file on a rel_path whose canonical resolution is
\* neither the root nor below it fail with PathEscape, load nothing and leave
\* the file system as it was; when the resolution is strictly inside the root
\* the containment check passes (the call does not fail with PathEscape).
C1_Containment ==
  [][(Call("read_file") \/ Call("write_file")) =>
       LET p == Canonical(fs, last'.rel) IN
       /\ (p # WORKSPACE_ROOT /\ ~UnderRoot(p)) =>
            /\ last'.res.kind = "PathEscape"
            /\ ~last'.res.loaded
            /\ fs' = fs
       /\ UnderRoot(p) => last'.res.kind # "PathEscape"]_vars

\* C1 witness: a write through a symbolic link that leaves the root was refused
C1_Witness ==
  /\ last.op = "write_file"
  /\ last.rel = Rel(<< <<"out">>, <<"passwd">> >>)
  /\ last.res.kind = "PathEscape"

ReadsAdmissibleFile ==
  /\ last.op = "read_file"
  /\ Admissible(Canonical(fs, last.rel))
  /\ KindOf(fs, Canonical(fs, last.rel)) = "file"

ReadData == fs[Canonical(fs, last.rel)].data

\* C3 as claimed: a file of at most 200000 bytes is read successfully and
\* the result is the file's text (its bytes decoded as UTF-8); a larger one
\* fails with TooLarge, reporting size and limit, and is not loaded.
C3_Original ==
  ReadsAdmissibleFile =>
    IF ByteSize(ReadData) <= 200000
    THEN /\ last.res.kind = "ok"
         /\ last.res.text = [chars |-> utf8_decode(ReadData.body).chars, pad |-> ReadData.pad]
    ELSE /\ last.res.kind = "TooLarge"
         /\ last.res.size = ByteSize(ReadData)
         /\ last.res.limit = 200000
         /\ ~last.res.loaded

\* C3 amended: a file of at most 200000 bytes (the limit included) that is
\* valid UTF-8 is read successfully and the result is its decoded text with
\* every "\r\n" and "\r" replaced by "\n"; one that is not valid UTF-8 fails
\* with EncodingError; a larger file fails with TooLarge, reporting size and
\* limit, and is not loaded.
C3_Amended ==
  ReadsAdmissibleFile =>
    IF ByteSize(ReadData) <= 200000
    THEN IF utf8_decode(ReadData.body).ok
         THEN /\ last.res.kind = "ok"
              /\ last.res.text.pad = ReadData.pad
              /\ last.res.text.chars = universal_newlines(utf8_decode(ReadData.body).chars)
         ELSE last.res.kind = "EncodingError"
    ELSE /\ last.res.kind = "TooLarge"
         /\ last.res.size = ByteSize(ReadData)
         /\ last.res.limit = 200000
         /\ ~last.res.loaded

\* C3 witness: a file of exactly 200000 bytes was read
C3_Witness ==
  /\ ReadsAdmissibleFile
  /\ ByteSize(ReadData) = 200000
  /\ last.res.kind = "ok"

\* a read_file of the path that the call before it wrote successfully
ReadAfterWrite ==
  /\ last.op = "write_file"
  /\ last.res.kind = "ok"
  /\ Admissible(last.res.path)
  /\ Call("read_file")
  /\ last'.rel = last.rel

\* C4 as claimed: write_file(P, C) followed by read_file(P) succeeds and
\* returns exactly C.
C4_Original ==
  [][ReadAfterWrite => (last'.res.kind = "ok" /\ last'.res.text = last.content)]_vars

\* C4 amended: write_file(P, C) followed by read_file(P) succeeds and returns
\* exactly C when C holds no carriage return and its UTF-8 encoding is at
\* most 200000 bytes.
C4_Amended ==
  [][(ReadAfterWrite /\ ~HasCR(last.content) /\ Utf8Len(last.content) <= 200000)
       => (last'.res.kind = "ok" /\ last'.res.text = last.content)]_vars

\* C4 witness: a non-ASCII text written to a new file was read back
C4_Witness ==
  /\ last.op = "read_file"
  /\ last.rel = Rel(<< <<"new">>, <<"sub">>, <<"f", "txt">> >>)
  /\ last.res.kind = "ok"
  /\ last.res.text = [chars |-> <<"HIRA_A", "LF">>, pad |-> 0]

\* C5: write_file creates or changes nothing outside the root; on an
\* admissible path whose parent directory is missing (every existing ancestor
\* being a directory) it succeeds, every ancestor is then a directory and
\* the file exists; and after every successful write the file holds the
\* UTF-8 encoding of the given content and nothing else.
C5_WriteInsideRoot ==
  [][Call("write_file") =>
       LET p == Canonical(fs, last'.rel) IN
       /\ \A q \in DOMAIN fs' : ~UnderRoot(q) => (q \in DOMAIN fs /\ fs'[q] = fs[q])
       /\ (/\ Admissible(p)
           /\ Front(p) \notin DOMAIN fs
           /\ \A q \in Parents(p) : KindOf(fs, q) \in {"none", "dir"})
            => /\ last'.res.kind = "ok"
               /\ \A q \in Parents(p) : KindOf(fs', q) = "dir"
               /\ KindOf(fs', p) = "file"
       /\ last'.res.kind = "ok" =>
            /\ KindOf(fs', p) = "file"
            /\ ByteSize(fs'[p].data) = Utf8Len(last'.content)
            /\ read_text_str(fs'[p].data).ok
            /\ utf8_decode(fs'[p].data.body).chars = last'.content.chars]_vars

\* C5 witness: new/sub/f.txt was written when neither new nor new/sub existed
C5_Witness ==
  /\ calls = 1
  /\ last.op = "write_file"
  /\ last.rel = Rel(<< <<"new">>, <<"sub">>, <<"f", "txt">> >>)
  /\ last.res.kind = "ok"
  /\ KindOf(fs, WORKSPACE_ROOT \o << <<"new">>, <<"sub">> >>) = "dir"

\* C6 as claimed: every listed path is relative to the root and names a
\* regular file below it (no directory, not the root, no symbolic link or
\* other non-regular entry) without an excluded suffix.
C6_Original ==
  last.op = "list_workspace_files" =>
    \A f \in last.res.files :
      /\ f # <<>>
      /\ KindOf(fs, WORKSPACE_ROOT \o f) = "file"
      /\ ~ExcludedSuffix(f)

\* C6 amended: every listed path is relative to the root and names, below
\* the root, a regular file or a symbolic link to a regular file (which may
\* lie outside the root), without an excluded suffix; directories, the root,
\* sockets, links to directories and dangling links are never listed.
C6_Amended ==
  last.op = "list_workspace_files" =>
    \A f \in last.res.files :
      /\ f # <<>>
      /\ \/ KindOf(fs, WORKSPACE_ROOT \o f) = "file"
         \/ /\ KindOf(fs, WORKSPACE_ROOT \o f) = "symlink"
            /\ KindOf(fs, fs[WORKSPACE_ROOT \o f].target) = "file"
      /\ ~ExcludedSuffix(f)

\* C6 witness: the listing holds a regular file and a link to a file outside
C6_Witness ==
  /\ last.op = "list_workspace_files"
  /\ << <<"a">>, <<"b", "txt">> >> \in last.res.files
  /\ << <<"outf">> >> \in last.res.files

\* The manifest file as it is now
ManifestNow == IF pkg_path \in DOMAIN fs THEN fs[pkg_path] ELSE NoNode

\* The manifest parses as JSON
Parseable ==
  /\ ManifestNow.kind = "file"
  /\ read_text_str(ManifestNow.data).ok
  /\ json_loads(read_text_str(ManifestNow.data).text).ok

ManifestValue == json_loads(read_text_str(ManifestNow.data).text).value

\* The manifest is an object whose scripts member is missing, null or a mapping
HasScriptsMapping ==
  /\ Parseable
  /\ ManifestValue.isdict
  /\ ManifestValue.scripts.type \in {"absent", "null", "dict"}

\* The script names the manifest defines
DefinedScripts ==
  IF Parseable /\ ManifestValue.isdict /\ ManifestValue.scripts.type = "dict"
  THEN { ManifestValue.scripts.keys[i] : i \in 1 .. Len(ManifestValue.scripts.keys) }
  ELSE {}

Alphabetical == <<"build", "lint", "test">>

Rank(name) == CHOOSE i \in 1 .. Len(Alphabetical) : Alphabetical[i] = name

\* names lists every element of S once, in alphabetical order
SortedListing(names, S) ==
  /\ { names[i] : i \in 1 .. Len(names) } = S
  /\ Len(names) = Cardinality(S)
  /\ \A i, j \in 1 .. Len(names) : i < j => Rank(names[i]) < Rank(names[j])

\* C7 as claimed: with any manifest that parses, run_script of a name that
\* is no key of the scripts mapping fails with UnknownScript, spawns no
\* child, and the failure lists every defined script name in sorted order.
C7_Original ==
  (last.op = "run_npm_script" /\ Parseable /\ last.script \notin DefinedScripts) =>
    /\ last.res.kind = "UnknownScript"
    /\ last.res.spawned = 0
    /\ SortedListing(last.res.names, DefinedScripts)

\* C7 amended: the same, for every manifest that parses to a JSON object
\* whose scripts member is missing, null or a mapping.
C7_Amended ==
  (last.op = "run_npm_script" /\ HasScriptsMapping /\ last.script \notin DefinedScripts) =>
    /\ last.res.kind = "UnknownScript"
    /\ last.res.spawned = 0
    /\ SortedListing(last.res.names, DefinedScripts)

\* C7 witness: scripts {lint, build}, name "test": the failure lists build, lint
C7_Witness ==
  /\ last.op = "run_npm_script"
  /\ last.script = "test"
  /\ ManifestNow.data.body = <<"J_LINT_BUILD">>
  /\ last.res.kind = "UnknownScript"
  /\ last.res.names = <<"build", "lint">>

\* the decimal text of the exit codes in use
ExitText(rc) ==
  CASE rc = 0 -> <<"0">>
    [] rc = 1 -> <<"1">>
    [] rc = -9 -> <<"-", "9">>

\* C8: run_script of a name the scripts mapping holds spawns the child once
\* and succeeds whatever the exit code; the result holds the exit code in
\* decimal and the captured (decoded) stdout and stderr of the child.
C8_ChildResult ==
  [][(Call("run_npm_script") /\ HasScriptsMapping /\ last'.script \in DefinedScripts) =>
       /\ last'.res.kind = "ok"
       /\ last'.res.spawned = 1
       /\ spawns' = spawns + 1
       /\ last'.res.child \in ChildRuns
       /\ last'.res.out =
            <<"exit_code: ">> \o ExitText(last'.res.child.returncode)
              \o <<"LF", "stdout:", "LF">> \o console_decode(last'.res.child.stdout)
              \o <<"LF", "stderr:", "LF">> \o console_decode(last'.res.child.stderr)]_vars

\* C8 witness: a child killed by a signal, with output, was reported as data
C8_Witness ==
  /\ last.op = "run_npm_script"
  /\ last.res.kind = "ok"
  /\ last.res.child.returncode = -9
  /\ last.res.child.stderr = <<"FF">>
  /\ spawns = 1

\* What a run_script call must come to, by the manifest as it is now
ExpectedRun(script) ==
  IF ManifestNow.kind = "none" THEN "ManifestNotFound"
  ELSE IF ~read_text_str(ManifestNow.data).ok THEN "UnicodeDecodeError"
  ELSE IF ~Parseable THEN "ManifestInvalid"
  ELSE IF HasScriptsMapping
  THEN IF script \in DefinedScripts THEN "ok" ELSE "UnknownScript"
  ELSE IF ManifestValue.isdict /\ ManifestValue.scripts.keys = <<script>> THEN "ok"
  ELSE "AttributeError"

\* C9: every run_script call is decided by the manifest as it is at that
\* call and by nothing an earlier call saw: missing gives ManifestNotFound,
\* unparseable text ManifestInvalid, a scripts mapping without the name
\* UnknownScript, with the name success (and a manifest that is not UTF-8,
\* not an object, or whose scripts member is a list, its own failure).
C9_NoCache ==
  [][Call("run_npm_script") => last'.res.kind = ExpectedRun(last'.script)]_vars

\* C9 witness: a name that was unknown at one run_script call is run by the
\* next one, the manifest having been rewritten in between
C9_Witness ==
  /\ last.op = "run_npm_script"
  /\ last.res.kind = "ok"
  /\ last.prev.script = last.script
  /\ last.prev.kind = "UnknownScript"

\* the texts of the complete writes: what the file held at first, and what
\* each write_file call was given
CompleteTexts ==
  { read_text_str(rd.old).text } \cup { wr[w].content : w \in Writers }

\* C10 as claimed: whatever the interleaving, read_file returns at most
\* 200000 bytes, and what it returns is the complete content of one write.
C10_Original ==
  (rd.pc = "done" /\ rd.res.kind = "ok") =>
    /\ Utf8Len(rd.res.text) <= 200000
    /\ rd.res.text \in CompleteTexts

\* C10 amended: read_file loads the file only after its size check saw at
\* most 200000 bytes; the size check and the load are separate observations,
\* so under concurrent writes the returned content may be larger than the
\* limit, or the empty or mixed state of writes in progress.
C10_Amended ==
  (rd.pc = "load" \/ (rd.pc = "done" /\ rd.res.loaded)) => rd.res.size <= 200000

\* C10 witness: the size check saw a small file and the load returned more
\* than 200000 bytes
C10_Witness ==
  /\ rd.pc = "done"
  /\ rd.res.kind = "ok"
  /\ rd.res.size <= 200000
  /\ Utf8Len(rd.res.text) > 200000

====
